---- MODULE Spec2Model ----
(***************************************************************************)
(* Model of the network/port discovery engine of defensive-tools:          *)
(*   src/version-final/tools/network_scanner.py  (NetworkScanner)          *)
(*   src/version-final/tools/port_scanner.py     (PortScanner)             *)
(* One scanner object is followed through successive scan() calls.  The    *)
(* calling thread, the futures of the ThreadPoolExecutor and the scanner's *)
(* lock are modelled step by step; texts are modelled by their structure.  *)
(***************************************************************************)
EXTENDS Integers, Sequences, FiniteSets, TLC

(***************************************************************************)
(* Bounds of the model                                                     *)
(***************************************************************************)
\* largest max_threads given to a scanner's constructor
MaxThreads == 2
\* largest number of dashes in a port text drawn as an input
MaxDashes == 2
\* largest number of commas in a port text drawn as an input
MaxCommas == 1
\* widest dash range "a-b" drawn as an input (b - a + 1)
MaxSpan == 3
\* most host bits (32 - prefix length) of a range text whose enumeration
\* alone is followed
MaxHostBits == 4
\* progress notes of the longest pass of the specification of the notes
MaxNotes == 2

(***************************************************************************)
(* Program constants                                                       *)
(***************************************************************************)
MaxPort == 65535
WellKnownMax == 1024
MaxPortCount == 10000
ProgressEvery == 50
\* the value of a token int() rejects with "invalid literal" ('-' never
\* occurs inside a token, so no token denotes a negative number)
NaN == -1
\* the literal "ICMP" an ICMP outcome holds in its port slot
IcmpMark == 0
\* 10.0.0.0 as a 32-bit number
BaseAddr == 10 * (2 ^ 24)

test_ports == <<80, 443, 22, 21, 25, 53, 135, 139, 445>>

\* self.services.get(port, "Unknown"), restricted to the ports of the model
services(port) ==
    CASE port = 21 -> "FTP"
      [] port = 22 -> "SSH"
      [] port = 23 -> "Telnet"
      [] port = 25 -> "SMTP"
      [] port = 53 -> "DNS"
      [] port = 80 -> "HTTP"
      [] port = 443 -> "HTTPS"
      [] port = 8080 -> "HTTP-Alt"
      [] OTHER -> "Unknown"

demo_high_port_services ==
    << [port |-> 8080, service |-> "HTTP-Alt", banner |-> "Apache httpd 2.4.41",
        state |-> "Open"],
       [port |-> 8443, service |-> "HTTPS-Alt", banner |-> "nginx 1.18.0", state |-> "Open"],
       [port |-> 9200, service |-> "Elasticsearch", banner |-> "Elasticsearch/7.14.0", state |-> "Open"],
       [port |-> 27017, service |-> "MongoDB", banner |-> "MongoDB 4.4.8", state |-> "Open"],
       [port |-> 6379, service |-> "Redis", banner |-> "Redis 6.2.5", state |-> "Open"] >>

demo_open_ports ==
    << [port |-> 22, service |-> "SSH", banner |-> "OpenSSH 8.2p1 Ubuntu 4ubuntu0.5", state |-> "Open"],
       [port |-> 80, service |-> "HTTP", banner |-> "Apache httpd 2.4.41", state |-> "Open"],
       [port |-> 443, service |-> "HTTPS", banner |-> "nginx 1.18.0", state |-> "Open"],
       [port |-> 3306, service |-> "MySQL", banner |-> "MySQL 8.0.28-0ubuntu0.20.04.3", state |-> "Open"],
       [port |-> 5432, service |-> "PostgreSQL", banner |-> "PostgreSQL 12.9", state |-> "Open"] >>

demo_smtp == [port |-> 25, service |-> "SMTP", banner |-> "Postfix 3.4.8", state |-> "Open"]
demo_dns == [port |-> 53, service |-> "DNS", banner |-> "BIND 9.16.1", state |-> "Open"]

\* the error texts of parse_port_range
MsgInvalidFormat == "Invalid port format. Use: 80, 80-443, or 80,443,8080"
MsgInvalidRange == "Invalid port range"
MsgInvalidNumber == "Invalid port number"
\* str(e) of the ValueError Python raises when "start, end = ..." gets a third value
MsgUnpack == "too many values to unpack (expected 2)"

(***************************************************************************)
(* Sequences                                                               *)
(***************************************************************************)
Range(s) == {s[i] : i \in 1..Len(s)}

Min(a, b) == IF a <= b THEN a ELSE b

\* number of elements of s whose field f is v
CountField(s, f, v) == Cardinality({i \in 1..Len(s) : s[i][f] = v})

\* x inserted into the sorted s after every element whose key is <= x's
RECURSIVE InsertByField(_, _, _)
InsertByField(s, x, f) ==
    IF s = <<>> THEN <<x>>
    ELSE IF x[f] < Head(s)[f] THEN <<x>> \o s
    ELSE <<Head(s)>> \o InsertByField(Tail(s), x, f)

\* list.sort(key=lambda x: x[f]): ascending by the key, stable
RECURSIVE SortByField(_, _)
SortByField(s, f) ==
    IF s = <<>> THEN <<>>
    ELSE InsertByField(SortByField(SubSeq(s, 1, Len(s) - 1), f), s[Len(s)], f)

\* list(range(a, b + 1))
RangeList(a, b) == [i \in 1..(b - a + 1) |-> a + i - 1]

(***************************************************************************)
(* Port texts.  A text is the separator it uses ("-", "," or "" for none)  *)
(* and the parts between the separators; a part is the number it denotes,  *)
(* or NaN when int() rejects it (a word, an empty part, a part that holds  *)
(* the other separator).                                                   *)
(***************************************************************************)
Tokens == {NaN, 0, 21, 22, 24, 8080, 70000}

ParseOk(ports) == [ok |-> TRUE, ports |-> ports, error |-> ""]
ParseError(msg) == [ok |-> FALSE, ports |-> <<>>, error |-> msg]

\* "start, end = map(int, port_range.split('-'))": the unpacking draws at
\* most three values from the map, converting each as it is drawn
ParseDash(parts) ==
    IF \E i \in 1..Min(Len(parts), 3) : parts[i] = NaN THEN ParseError(MsgInvalidFormat)
    ELSE IF Len(parts) > 2 THEN ParseError(MsgUnpack)
    ELSE IF parts[1] > parts[2] \/ parts[1] < 1 \/ parts[2] > MaxPort
         THEN ParseError(MsgInvalidRange)
    ELSE ParseOk(RangeList(parts[1], parts[2]))

\* faulty variant of ParseComma: the range test of the list is left out
ParseCommaUnchecked(parts) ==
    IF \E i \in 1..Len(parts) : parts[i] = NaN THEN ParseError(MsgInvalidFormat)
    ELSE ParseOk(parts)

\* "ports = [int(p.strip()) for p in port_range.split(',')]", then the range test
ParseComma(parts) ==
    IF \E i \in 1..Len(parts) : parts[i] = NaN THEN ParseError(MsgInvalidFormat)
    ELSE IF \E i \in 1..Len(parts) : parts[i] < 1 \/ parts[i] > MaxPort
         THEN ParseError(MsgInvalidNumber)
    ELSE ParseOk(parts)

ParseSingle(part) ==
    IF part = NaN THEN ParseError(MsgInvalidFormat)
    ELSE IF part < 1 \/ part > MaxPort THEN ParseError(MsgInvalidNumber)
    ELSE ParseOk(<<part>>)

parse_port_range(port_range) ==
    IF port_range.sep = "-" THEN ParseDash(port_range.parts)
    ELSE IF port_range.sep = "," THEN ParseComma(port_range.parts)
    ELSE ParseSingle(port_range.parts[1])

SeqsOfLen(S, n) == [1..n -> S]

\* the parts after the second of a dash text: only whether int() accepts
\* them matters
TailTokens == {NaN, 22}

\* the parts of a comma list: as Tokens, with one port outside the service
\* table less
ListTokens == Tokens \ {24}

PortTexts ==
    {[sep |-> "", parts |-> <<t>>] : t \in Tokens}
    \cup {[sep |-> "-", parts |-> ps \o tail] :
             ps \in SeqsOfLen(Tokens, 2),
             tail \in UNION {SeqsOfLen(TailTokens, n - 1) : n \in 1..MaxDashes}}
    \cup {[sep |-> ",", parts |-> ps] :
             ps \in UNION {SeqsOfLen(ListTokens, n + 1) : n \in 1..MaxCommas}}

\* the ranges at the size limit of scan: "1024-11023" has MaxPortCount ports,
\* "1024-11024" one more; one port of each is a well-known port
LargeRanges ==
    {[sep |-> "-", parts |-> <<WellKnownMax, WellKnownMax + n - 1>>] :
        n \in {MaxPortCount, MaxPortCount + 1}}

\* the port texts drawn as inputs: a dash range spans at most MaxSpan ports,
\* but for the two ranges at the size limit
PortInputs ==
    {t \in PortTexts :
        t.sep = "-" /\ Len(t.parts) = 2 /\ t.parts[1] # NaN /\ t.parts[2] # NaN
            => t.parts[2] - t.parts[1] < MaxSpan}
    \cup LargeRanges

(***************************************************************************)
(* Targets of a port scan.  socket.inet_aton accepts a dotted quad; any    *)
(* other text goes to socket.gethostbyname, whose outcome depends on the   *)
(* resolver: an address, socket.gaierror, or another exception (idna       *)
(* encoding raises UnicodeError for an empty or overlong label: "a..b").   *)
(***************************************************************************)
Targets == {"127.0.0.1", "10.0.0.5", "host.example", "a..b"}

inet_aton_ok(target) == target \in {"127.0.0.1", "10.0.0.5"}

gethostbyname(target) ==
    CASE target = "localhost" -> {"address"}
      [] target = "a..b" -> {"UnicodeError"}
      [] OTHER -> {"address", "gaierror"}

is_localhost(target) == target \in {"127.0.0.1", "localhost", "::1"}

(***************************************************************************)
(* Network ranges.  A range text is a CIDR prefix or a bare address        *)
(* (prefix 32), or a text ipaddress.ip_network rejects with ValueError.    *)
(***************************************************************************)
PrefixLens == {30, 31, 32}
\* the address of a range text: aligned to the prefix (offset 0) or with
\* host bits set (offset 3)
AddrOffsets == {0, 3}

NetInputs ==
    {[valid |-> FALSE, addr |-> 0, prefix |-> 0]}
    \cup {[valid |-> TRUE, addr |-> BaseAddr + o, prefix |-> p] :
             o \in AddrOffsets, p \in PrefixLens}

Methods == {"tcp", "icmp"}

\* number of addresses of a prefix
Capacity(prefix) == 2 ^ (32 - prefix)

\* ipaddress.ip_network(text, strict=False).network_address: host bits cleared
network_address(net) == net.addr - (net.addr % Capacity(net.prefix))

\* faulty variant of network_hosts: every address of the prefix is enumerated
network_addresses(net) ==
    [i \in 1..Capacity(net.prefix) |-> network_address(net) + i - 1]

\* faulty variant of network_hosts: a /31 is treated as any longer prefix,
\* its two addresses taken for a network and a broadcast address
network_hosts_no31(net) ==
    IF net.prefix = 32 THEN <<network_address(net)>>
    ELSE [i \in 1..(Capacity(net.prefix) - 2) |-> network_address(net) + i]

\* list(network.hosts()): a /32 yields its address (an empty list before
\* Python 3.9), a /31 both addresses, any other prefix all but the first
\* (network) and last (broadcast) address
network_hosts(net) ==
    LET base == network_address(net)
        cap == Capacity(net.prefix)
    IN  IF net.prefix = 32 THEN <<base>>
        ELSE IF net.prefix = 31 THEN <<base, base + 1>>
        ELSE [i \in 1..(cap - 2) |-> base + i]

\* ipaddress.ip_network(text, strict=False).broadcast_address: host bits set
broadcast_address(net) == network_address(net) + Capacity(net.prefix) - 1

\* lines 349-353: hosts, or the network address itself when hosts() is empty
scan_hosts(net) ==
    IF Len(network_hosts(net)) = 0 THEN <<network_address(net)>>
    ELSE network_hosts(net)

(***************************************************************************)
(* Enrichment of a positive host outcome.  The ARP read yields a MAC or    *)
(* "Unknown"; the name resolution yields a name, else the vendor of the    *)
(* MAC's OUI prefix, else "Unknown".  Each step of the two functions is    *)
(* an answer of the environment: a value, nothing, or an exception.        *)
(***************************************************************************)
\* the steps of get_mac_address: the test for an address of this machine,
\* "arp -a <ip>", and the read of the whole ARP table
ArpSteps ==
    [local : {"yes", "no", "raise"},
     arp : {"mac", "nomatch", "raise"},
     full : {"mac", "nomatch", "raise"}]

\* the MAC an address has: uuid.getnode() when the address is this
\* machine's, else the entry of the ARP table (one value stands for all)
Mac == "00:0C:29:12:34:56"

\* get_mac_address(ip): an exception of the local test is passed over, one
\* of an arp subprocess ends in the outer handler
get_mac_address(a) ==
    IF a.local = "yes" THEN Mac
    ELSE IF a.arp = "mac" THEN Mac
    ELSE IF a.arp = "raise" THEN "Unknown"
    ELSE IF a.full = "mac" THEN Mac
    ELSE "Unknown"

MacOutcomes == {get_mac_address(a) : a \in ArpSteps}

\* the steps of get_host_info: socket.gethostbyaddr, socket.getfqdn, nbtstat
\* (skipped unless the platform is Windows) and the OUI lookup of the MAC's
\* prefix (in the table or not); one name stands for every name of the host
HostInfoSteps ==
    [rdns : {"name", "none", "raise"},
     fqdn : {"name", "none", "raise"},
     netbios : {"skipped", "name", "none", "raise"},
     oui : {"vendor", "none", "raise"}]

\* OUI_VENDORS[prefix] for a prefix the table holds
OUI_VENDORS(mac) == IF mac = Mac THEN "VMware" ELSE "none"

\* faulty variant of get_host_info: the steps are not guarded one by one, so
\* an exception of a step reaches the outer handler, which returns "Error"
get_host_info_unguarded(steps, mac) ==
    IF steps.rdns = "raise" THEN "Error"
    ELSE IF steps.rdns = "name" THEN "host.lan"
    ELSE IF steps.fqdn = "raise" THEN "Error"
    ELSE IF steps.fqdn = "name" THEN "host.lan"
    ELSE IF steps.netbios = "raise" THEN "Error"
    ELSE IF steps.netbios = "name" THEN "host.lan"
    ELSE IF mac # "Unknown" /\ steps.oui = "raise" THEN "Error"
    ELSE IF mac # "Unknown" /\ steps.oui = "vendor" THEN OUI_VENDORS(mac)
    ELSE "Unknown"

\* get_host_info(ip, mac): the first step that gives a name decides; a step
\* that gives nothing or raises is passed over
get_host_info(steps, mac) ==
    IF steps.rdns = "name" THEN "host.lan"
    ELSE IF steps.fqdn = "name" THEN "host.lan"
    ELSE IF steps.netbios = "name" THEN "host.lan"
    ELSE IF mac # "Unknown" /\ steps.oui = "vendor" THEN OUI_VENDORS(mac)
    ELSE "Unknown"

HostInfoOutcomes(mac) == {get_host_info(steps, mac) : steps \in HostInfoSteps}

\* grab_banner(sock, port): what the banner read can yield for a port
grab_banner(port) ==
    IF port \in {21, 22, 25, 110, 143} THEN {"banner", "No banner"}
    ELSE IF port \in {80, 8080} THEN {"Server", "HTTP Service", "No banner"}
    ELSE {"Service detected"}

(***************************************************************************)
(* State                                                                   *)
(***************************************************************************)
VARIABLES
    scanner,            \* the object followed: "net" (NetworkScanner) or "port" (PortScanner)
    max_threads,        \* self.max_threads
    active_hosts,       \* NetworkScanner.active_hosts
    open_ports,         \* PortScanner.open_ports
    lock,               \* self.lock: 0 when free, else the future holding it
    pc,                 \* position of the thread that calls scan()
    ret,                \* what the scan() call gave its caller
    args,               \* the arguments of the scan() call (and, for a port scan,
                        \* what the resolution of the target gave)
    method,             \* scan's method argument
    hosts,              \* scan's local hosts
    ports,              \* scan's local ports
    localhost,          \* scan's local is_localhost
    icmp_fallback_used, \* scan's local icmp_fallback_used
    results,            \* scan's local results: the lines of the text
    func,               \* the probe function given to the running pool
    fut,                \* the futures of the running pool, one per submitted unit
    submitted,          \* number of units the submit loop has passed
    completed,          \* the as_completed loop's counter
    calls,              \* history: per probe function, how often each unit was probed
    positive,           \* history: per probe function, the units that answered a connect or ping
    sockets,            \* ledger of the sockets of the probes: those in use and the
                        \* number left open by a probe that has returned (kept by
                        \* SpecSockets only)
    other               \* the frame of a second call of scan on the same object while
                        \* the first is running (SpecOverlap only)

vars == <<scanner, max_threads, active_hosts, open_ports, lock, pc, ret, args, method,
          hosts, ports, localhost, icmp_fallback_used, results, func, fut,
          submitted, completed, calls, positive, sockets, other>>

\* what the constructor's arguments fix
config == <<scanner, max_threads>>
object == <<scanner, max_threads, sockets, other>>
locals == <<args, method, hosts, ports, localhost, icmp_fallback_used>>
pool == <<func, fut, submitted, completed>>
history == <<calls, positive>>

NoRet == [kind |-> "none"]
NoArgs == [none |-> TRUE]
Text(lines) == [kind |-> "text", text |-> lines]
Raised(exc) == [kind |-> "exception", exc |-> exc]

NoSockets == [open |-> {}, left |-> 0]
NoOther == [pc |-> "none"]
NoCalls == [f \in {"tcp", "icmp", "port"} |-> <<>>]
NoPositive == [f \in {"tcp", "icmp", "port"} |-> {}]
NewFuture == [st |-> "new", i |-> 0, banner |-> "", mac |-> "", host_info |-> "", enriched |-> 0]
ZeroCalls(n) == [k \in 1..n |-> 0]

\* [p for p in ports if p <= 1024] and [p for p in ports if p > 1024]
IsWellKnown(p) == p <= WellKnownMax
IsHigh(p) == p > WellKnownMax
well_known_ports == SelectSeq(ports, IsWellKnown)
high_ports == SelectSeq(ports, IsHigh)

\* the units the pool of the running call works on
units == IF scanner = "net" THEN hosts ELSE well_known_ports

Init ==
    /\ scanner \in {"net", "port"}
    /\ max_threads \in 1..MaxThreads
    /\ active_hosts = <<>>
    /\ open_ports = <<>>
    /\ lock = 0
    /\ pc = "idle"
    /\ ret = NoRet
    /\ args = NoArgs
    /\ method = "tcp"
    /\ hosts = <<>>
    /\ ports = <<>>
    /\ localhost = FALSE
    /\ icmp_fallback_used = FALSE
    /\ results = <<>>
    /\ func = "tcp"
    /\ fut = <<>>
    /\ submitted = 0
    /\ completed = 0
    /\ calls = NoCalls
    /\ positive = NoPositive
    /\ sockets = NoSockets
    /\ other = NoOther

\* faulty variant of Cleared: the outcomes of the earlier call stay
CarriedOver(old) == old

\* "self.active_hosts = []" / "self.open_ports = []" at the head of scan
Cleared(old) == <<>>

(***************************************************************************)
(* NetworkScanner.scan, up to the first pool                               *)
(***************************************************************************)
NetHeader(network_range, n, m) ==
    << [t |-> "title", range |-> network_range],
       [t |-> "scanning", n |-> n],
       [t |-> "method", tcp |-> (m = "tcp")] >>

\* faulty variant of NetRangeError: without the "except ValueError" handler
\* the error goes to "except Exception"
NetRangeErrorGeneric == <<[t |-> "Error during network scan", exc |-> "ValueError"]>>

\* the text of the "except ValueError" handler
NetRangeError ==
    << [t |-> "Error: Invalid network range format."],
       [t |-> "Please use CIDR notation (e.g., 192.168.1.0/24) or single IP."],
       [t |-> "Error details"] >>

NetScanCall(network_range, m) ==
    /\ pc = "idle"
    /\ scanner = "net"
    /\ active_hosts' = Cleared(active_hosts)
    /\ args' = [network_range |-> network_range, method |-> m]
    /\ method' = m
    /\ icmp_fallback_used' = FALSE
    /\ ports' = <<>>
    /\ localhost' = FALSE
    /\ submitted' = 0
    /\ completed' = 0
    /\ positive' = NoPositive
    /\ func' = IF m = "icmp" THEN "icmp" ELSE "tcp"
    /\ IF network_range.valid
       THEN /\ hosts' = scan_hosts(network_range)
            /\ results' = NetHeader(network_range, Len(hosts'), m)
            /\ fut' = [k \in 1..Len(hosts') |-> NewFuture]
            /\ calls' = [NoCalls EXCEPT !["tcp"] = ZeroCalls(Len(hosts')),
                                        !["icmp"] = ZeroCalls(Len(hosts'))]
            /\ ret' = NoRet
            /\ pc' = "submit"
       ELSE /\ hosts' = <<>>
            /\ results' = NetRangeError
            /\ fut' = <<>>
            /\ calls' = NoCalls
            /\ ret' = Text(results')
            /\ pc' = "returned"
    /\ UNCHANGED <<object, open_ports, lock>>

\* the GUI's scan thread calls network_scanner.scan(network, method=...)
NetScan ==
    /\ pc = "idle"
    /\ scanner = "net"
    /\ \E network_range \in NetInputs, m \in Methods : NetScanCall(network_range, m)

(***************************************************************************)
(* The pool: "with ThreadPoolExecutor(max_workers=...) as executor", the   *)
(* submit loop and the as_completed loop                                   *)
(***************************************************************************)
InFlight == {k \in 1..Len(fut) : fut[k].st \in {"run", "wantlock", "locked", "lookup"}}

\* max_workers of the executor: self.max_threads in NetworkScanner.scan,
\* min(self.max_threads, len(well_known_ports)) in PortScanner.scan
max_workers == IF scanner = "net" THEN max_threads ELSE Min(max_threads, Len(units))

\* faulty variant of CanStart: the executor starts a thread for every work item
CanStartUnbounded == TRUE

\* a queued work item is taken only by a worker thread, of which the
\* executor keeps at most max_workers
CanStart == Cardinality(InFlight) < max_workers

\* faulty variant of Finished: a future counts as finished once a worker has taken it
FinishedOnceStarted(k) == fut[k].st \in {"run", "wantlock", "locked", "done"}

\* future k has run to its end
Finished(k) == fut[k].st = "done"

\* faulty variant of LockFree: the append section is entered without the lock
LockIgnored == TRUE

\* "with self.lock" can be entered
LockFree == lock = 0

\* executor.submit(func, unit) for the next unit of the comprehension
Submit ==
    /\ pc = "submit"
    /\ submitted < Len(units)
    /\ submitted' = submitted + 1
    /\ fut' = [fut EXCEPT ![submitted + 1].st = "queued"]
    /\ pc' = IF submitted' = Len(units) THEN "collect" ELSE "submit"
    /\ UNCHANGED <<object, active_hosts, open_ports, lock, ret, locals, results,
                   func, completed, history>>

\* executor.submit raises (RuntimeError: can't start new thread): the
\* with-block is left by the exception
SubmitFail ==
    /\ pc = "submit"
    /\ submitted < Len(units)
    /\ pc' = "unwind"
    /\ UNCHANGED <<object, active_hosts, open_ports, lock, ret, locals, results,
                   pool, history>>

\* a worker thread takes work item k and calls func(unit)
Start(k) ==
    /\ k \in 1..Len(fut)
    /\ fut[k].st = "queued"
    /\ CanStart
    /\ fut' = [fut EXCEPT ![k].st = "run", ![k].i = 1]
    /\ calls' = [calls EXCEPT ![func][k] = @ + 1]
    /\ UNCHANGED <<object, active_hosts, open_ports, lock, pc, ret, locals, results,
                   func, submitted, completed, positive>>

\* faulty variant of ProgressLine: a note after every completion
ProgressLineEach(n) == <<[t |-> "progress", completed |-> n, total |-> Len(units)]>>

\* "if completed % 50 == 0: results += ..."
ProgressLine(n) ==
    IF n % ProgressEvery = 0
    THEN <<[t |-> "progress", completed |-> n, total |-> Len(units)]>>
    ELSE <<>>

\* one turn of "for future in as_completed(...)": a finished future not yet
\* counted is yielded
Collect ==
    /\ pc = "collect"
    /\ completed < Cardinality({k \in 1..Len(fut) : Finished(k)})
    /\ completed' = completed + 1
    /\ results' = results \o ProgressLine(completed')
    /\ UNCHANGED <<object, active_hosts, open_ports, lock, pc, ret, locals,
                   func, fut, submitted, history>>

\* the loop has yielded every future and the with-block ends:
\* executor.shutdown(wait=True) returns once every work item has run
ExitPool ==
    /\ pc = "collect"
    /\ completed = Len(fut)
    /\ \A k \in 1..Len(fut) : Finished(k)
    /\ pc' = "drained"
    /\ UNCHANGED <<object, active_hosts, open_ports, lock, ret, locals, results,
                   pool, history>>

(***************************************************************************)
(* The probes                                                              *)
(***************************************************************************)
ConnectOutcomes == {"ok", "refused", "raise"}

\* faulty variant of Connected: any answer of the host counts, a refusal too
Answered(outcome) == outcome # "raise"

\* "if result == 0" (for ping: "if result.returncode == 0")
Connected(outcome) == outcome = "ok"

\* _ping_host_tcp: one turn of "for port in test_ports", as far as the
\* worker and the history go
TcpTurn(k, outcome) ==
    /\ k \in 1..Len(fut)
    /\ func = "tcp"
    /\ fut[k].st = "run"
    /\ fut' = IF Connected(outcome) THEN [fut EXCEPT ![k].st = "wantlock"]
              ELSE IF fut[k].i < Len(test_ports) THEN [fut EXCEPT ![k].i = @ + 1]
              ELSE [fut EXCEPT ![k].st = "done"]
    /\ positive' = IF outcome = "ok" THEN [positive EXCEPT !["tcp"] = @ \cup {k}]
                   ELSE positive

TcpConnect(k, outcome) ==
    /\ TcpTurn(k, outcome)
    /\ UNCHANGED <<object, active_hosts, open_ports, lock, pc, ret, locals, results,
                   func, submitted, completed, calls>>

\* _ping_host_icmp: subprocess.run(ping); "ok" is returncode 0
PingRun(k, outcome) ==
    /\ k \in 1..Len(fut)
    /\ func = "icmp"
    /\ fut[k].st = "run"
    /\ fut' = IF Connected(outcome) THEN [fut EXCEPT ![k].st = "wantlock"]
              ELSE [fut EXCEPT ![k].st = "done"]
    /\ positive' = IF outcome = "ok" THEN [positive EXCEPT !["icmp"] = @ \cup {k}]
                   ELSE positive
    /\ UNCHANGED <<object, active_hosts, open_ports, lock, pc, ret, locals, results,
                   func, submitted, completed, calls>>

\* scan_port: connect_ex, then the service name and the banner, as far as
\* the worker and the history go
ScanPortTurn(k, outcome) ==
    /\ k \in 1..Len(fut)
    /\ func = "port"
    /\ fut[k].st = "run"
    /\ IF Connected(outcome)
       THEN \E banner \in grab_banner(units[k]) :
               fut' = [fut EXCEPT ![k].st = "wantlock", ![k].banner = banner]
       ELSE fut' = [fut EXCEPT ![k].st = "done"]
    /\ positive' = IF outcome = "ok" THEN [positive EXCEPT !["port"] = @ \cup {k}]
                   ELSE positive

ScanPortConnect(k, outcome) ==
    /\ ScanPortTurn(k, outcome)
    /\ UNCHANGED <<object, active_hosts, open_ports, lock, pc, ret, locals, results,
                   func, submitted, completed, calls>>

\* "with self.lock:" is entered
Acquire(k) ==
    /\ k \in 1..Len(fut)
    /\ fut[k].st = "wantlock"
    /\ LockFree
    /\ lock' = k
    /\ fut' = [fut EXCEPT ![k].st = "locked"]
    /\ UNCHANGED <<object, active_hosts, open_ports, pc, ret, locals, results,
                   func, submitted, completed, history>>

\* faulty variant of ReturnTrue: without the return the loop over test_ports
\* goes on after the append
ContinueLoop(f) ==
    IF f.i < Len(test_ports) THEN [f EXCEPT !.st = "run", !.i = @ + 1]
    ELSE [f EXCEPT !.st = "done"]

\* "return True" after the append: the probe of this unit is over
ReturnTrue(f) == [f EXCEPT !.st = "done"]

\* inside the lock: get_mac_address, get_host_info, active_hosts.append;
\* the lock is released and the probe returns True
NetAppend(k, mac, host_info) ==
    /\ k \in 1..Len(fut)
    /\ scanner = "net"
    /\ fut[k].st = "locked"
    /\ active_hosts' = Append(active_hosts,
           [ip |-> hosts[k],
            port |-> IF func = "icmp" THEN IcmpMark ELSE test_ports[fut[k].i],
            host_info |-> host_info,
            mac |-> mac])
    /\ lock' = 0
    /\ fut' = [fut EXCEPT ![k] = ReturnTrue([fut[k] EXCEPT !.mac = mac,
                                                          !.host_info = host_info,
                                                          !.enriched = @ + 1])]
    /\ UNCHANGED <<object, open_ports, pc, ret, locals, results,
                   func, submitted, completed, history>>

\* inside the lock: open_ports.append; the lock is released, the socket
\* closed and the probe returns True
PortAppendTurn(k) ==
    /\ k \in 1..Len(fut)
    /\ scanner = "port"
    /\ fut[k].st = "locked"
    /\ open_ports' = Append(open_ports,
           [port |-> units[k], service |-> services(units[k]),
            banner |-> fut[k].banner, state |-> "Open"])
    /\ lock' = 0
    /\ fut' = [fut EXCEPT ![k].st = "done"]

PortAppend(k) ==
    /\ PortAppendTurn(k)
    /\ UNCHANGED <<object, active_hosts, pc, ret, locals, results,
                   func, submitted, completed, history>>

(***************************************************************************)
(* NetworkScanner.scan after the primary pool                              *)
(***************************************************************************)
\* faulty variant of FallbackDue: the fallback test never fires
FallbackNever == FALSE

\* faulty variant of FallbackDue: the second pass is run after every first pass
FallbackAlways == TRUE

\* "if method == 'tcp' and not self.active_hosts"
FallbackDue == method = "tcp" /\ active_hosts = <<>>

FallbackNotice ==
    << [t |-> "No hosts responded to common TCP ports."],
       [t |-> "Attempting ICMP ping fallback..."] >>

IcmpNote == [t |-> "Hosts may appear via ICMP ping even when no common TCP ports are open."]

\* the second _scan_with: the whole of hosts again, with _ping_host_icmp
NetFallback ==
    /\ pc = "drained"
    /\ scanner = "net"
    /\ ~icmp_fallback_used
    /\ FallbackDue
    /\ icmp_fallback_used' = TRUE
    /\ results' = results \o FallbackNotice
    /\ func' = "icmp"
    /\ fut' = [k \in 1..Len(hosts) |-> NewFuture]
    /\ submitted' = 0
    /\ completed' = 0
    /\ pc' = "submit"
    /\ UNCHANGED <<object, active_hosts, open_ports, lock, ret, args, method, hosts,
                   ports, localhost, history>>

\* faulty variant of SortHosts: the outcomes stay in completion order
SortHostsOmitted(s) == s

\* "self.active_hosts.sort(key=lambda x: ipaddress.ip_address(x[0]))"
SortHosts(s) == SortByField(s, "ip")

NetSort ==
    /\ pc = "drained"
    /\ scanner = "net"
    /\ icmp_fallback_used \/ ~FallbackDue
    /\ active_hosts' = SortHosts(active_hosts)
    /\ pc' = "report"
    /\ UNCHANGED <<object, open_ports, lock, ret, locals, results, pool, history>>

HostRows(s) == [i \in 1..Len(s) |-> [t |-> "host", ip |-> s[i].ip, port |-> s[i].port,
                                      mac |-> s[i].mac, hostname |-> s[i].host_info]]

NetSummary ==
    <<[t |-> "summary", found |-> Len(active_hosts)]>>
    \o (IF active_hosts # <<>> THEN HostRows(active_hosts)
        ELSE <<[t |-> "No active hosts found in the specified range."]>>)
    \o <<[t |-> "Note: This scan uses basic connectivity checks."]>>
    \o (IF method = "icmp" \/ icmp_fallback_used THEN <<IcmpNote>> ELSE <<>>)

\* the summary and the table are added and the text is returned
NetReport ==
    /\ pc = "report"
    /\ scanner = "net"
    /\ results' = results \o NetSummary
    /\ ret' = Text(results')
    /\ pc' = "returned"
    /\ UNCHANGED <<object, active_hosts, open_ports, lock, locals, pool, history>>

\* the exception of a failed submit leaves the with-block, which waits for
\* the work items already taken (shutdown(wait=True)); then NetworkScanner.scan
\* handles it ("except Exception") and PortScanner.scan lets it pass
Unwind ==
    /\ pc = "unwind"
    /\ \A k \in 1..submitted : Finished(k)
    /\ IF scanner = "net"
       THEN /\ results' = <<[t |-> "Error during network scan", exc |-> "RuntimeError"]>>
            /\ ret' = Text(results')
       ELSE /\ ret' = Raised("RuntimeError")
            /\ UNCHANGED results
    /\ pc' = "returned"
    /\ UNCHANGED <<object, active_hosts, open_ports, lock, locals, pool, history>>

(***************************************************************************)
(* PortScanner.scan                                                        *)
(***************************************************************************)
\* the address the target stands for after lines 116-123
ResolvedTarget(target) ==
    CASE target = "localhost" -> "127.0.0.1"
      [] target = "host.example" -> "10.0.0.5"
      [] OTHER -> target

PortHeader(target, port_range, n) ==
    << [t |-> "title", target |-> target],
       [t |-> "range", text |-> port_range, n |-> n] >>

\* lines 116-123: "ok", or how the resolution fails
ResolveOutcomes(target) ==
    IF inet_aton_ok(target) THEN {"address"} ELSE gethostbyname(target)

\* faulty variant of TooLarge: a port space of exactly 10,000 entries is refused
TooLargeFrom10000(ps) == Len(ps) >= MaxPortCount

\* "if len(ports) > 10000"
TooLarge(ps) == Len(ps) > MaxPortCount

PortSizeError == <<[t |-> "Error: Port range too large (max 10,000 ports)"]>>

PortScanCall(target, port_range, resolved) ==
    LET parsed == parse_port_range(port_range)
        wk == SelectSeq(parsed.ports, IsWellKnown)
        fail == IF resolved = "gaierror"
                  THEN <<[t |-> "Error: Unable to resolve target", target |-> target]>>
                ELSE IF ~parsed.ok THEN <<[t |-> "Error", msg |-> parsed.error]>>
                ELSE IF TooLarge(parsed.ports) THEN PortSizeError
                ELSE <<>>
    IN
    /\ pc = "idle"
    /\ scanner = "port"
    /\ resolved \in ResolveOutcomes(target)
    /\ open_ports' = Cleared(open_ports)
    /\ args' = [target |-> target, port_range |-> port_range, resolved |-> resolved]
    /\ localhost' = is_localhost(target)
    /\ method' = "tcp"
    /\ hosts' = <<>>
    /\ icmp_fallback_used' = FALSE
    /\ func' = "port"
    /\ submitted' = 0
    /\ completed' = 0
    /\ positive' = NoPositive
    /\ IF resolved \notin {"address", "gaierror"}
       THEN \* gethostbyname raised something "except socket.gaierror" lets pass
            /\ ports' = <<>>
            /\ results' = <<>>
            /\ fut' = <<>>
            /\ calls' = NoCalls
            /\ ret' = Raised(resolved)
            /\ pc' = "returned"
       ELSE IF fail # <<>>
       THEN /\ ports' = <<>>
            /\ results' = fail
            /\ fut' = <<>>
            /\ calls' = NoCalls
            /\ ret' = Text(fail)
            /\ pc' = "returned"
       ELSE /\ ports' = parsed.ports
            /\ results' = PortHeader(ResolvedTarget(target), port_range, Len(parsed.ports))
            /\ fut' = [k \in 1..Len(wk) |-> NewFuture]
            /\ calls' = [NoCalls EXCEPT !["port"] = ZeroCalls(Len(wk))]
            /\ ret' = NoRet
            /\ pc' = IF wk # <<>> THEN "submit" ELSE "drained"
    /\ UNCHANGED <<object, active_hosts, lock>>

\* the GUI's scan thread calls port_scanner.scan(target, port_range)
PortScan ==
    /\ pc = "idle"
    /\ scanner = "port"
    /\ \E target \in Targets, port_range \in PortInputs :
          \E resolved \in ResolveOutcomes(target) :
             PortScanCall(target, port_range, resolved)

\* lines 154-167: the demo records whose port is among the requested high ports
HighPortDemo ==
    LET Requested(d) == d.port \in Range(high_ports)
    IN  SelectSeq(demo_high_port_services, Requested)

\* lines 169-187: for a localhost target with nothing found
LocalhostDemo ==
    LET Requested(d) == d.port \in Range(ports)
        filtered == SelectSeq(demo_open_ports, Requested)
    IN  IF filtered # <<>> \/ ports = <<>> THEN filtered
        ELSE (IF \E i \in 1..Len(ports) : ports[i] <= 25 THEN <<demo_smtp>> ELSE <<>>)
             \o (IF \E i \in 1..Len(ports) : ports[i] <= 53 THEN <<demo_dns>> ELSE <<>>)

\* faulty variant of WithDemo: the demo records stand in for an empty result
\* whatever the target is
WithDemoForAnyTarget(found) ==
    LET withHigh == found \o HighPortDemo
    IN  IF withHigh = <<>> THEN LocalhostDemo ELSE withHigh

\* open_ports after lines 154-187
WithDemo(found) ==
    LET withHigh == found \o HighPortDemo
    IN  IF localhost /\ withHigh = <<>> THEN LocalhostDemo ELSE withHigh

PortDemo ==
    /\ pc = "drained"
    /\ scanner = "port"
    /\ open_ports' = WithDemo(open_ports)
    /\ pc' = "sort"
    /\ UNCHANGED <<object, active_hosts, lock, ret, locals, results, pool, history>>

\* "self.open_ports.sort(key=lambda x: x['port'])"
SortPorts(s) == SortByField(s, "port")

PortSort ==
    /\ pc = "sort"
    /\ scanner = "port"
    /\ open_ports' = SortPorts(open_ports)
    /\ pc' = "report"
    /\ UNCHANGED <<object, active_hosts, lock, ret, locals, results, pool, history>>

PortRows(s) == [i \in 1..Len(s) |-> [t |-> "port", port |-> s[i].port,
                                      service |-> s[i].service, state |-> s[i].state,
                                      banner |-> s[i].banner]]

PortSummary ==
    <<[t |-> "summary", scanned |-> Len(ports), open |-> Len(open_ports)]>>
    \o (IF open_ports # <<>> THEN PortRows(open_ports)
        ELSE <<[t |-> "No open ports found."]>>)

PortReport ==
    /\ pc = "report"
    /\ scanner = "port"
    /\ results' = results \o PortSummary
    /\ ret' = Text(results')
    /\ pc' = "returned"
    /\ UNCHANGED <<object, active_hosts, open_ports, lock, locals, pool, history>>

(***************************************************************************)
(* The caller (scan_thread of run_network_scan / run_port_scan) has the    *)
(* text or the exception and ends; the frame of the call is gone, the      *)
(* scanner object stays for the next call.                                 *)
(***************************************************************************)
ScanThreadEnds ==
    /\ pc = "returned"
    /\ pc' = "idle"
    /\ ret' = NoRet
    /\ args' = NoArgs
    /\ method' = "tcp"
    /\ hosts' = <<>>
    /\ ports' = <<>>
    /\ localhost' = FALSE
    /\ icmp_fallback_used' = FALSE
    /\ results' = <<>>
    /\ func' = "tcp"
    /\ fut' = <<>>
    /\ submitted' = 0
    /\ completed' = 0
    /\ calls' = NoCalls
    /\ positive' = NoPositive
    /\ UNCHANGED <<object, active_hosts, open_ports, lock>>

Next ==
    \/ NetScan
    \/ PortScan
    \/ Submit
    \/ SubmitFail
    \/ Collect
    \/ ExitPool
    \/ \E k \in 1..Len(fut) : Start(k)
    \/ \E k \in 1..Len(fut), o \in ConnectOutcomes : TcpConnect(k, o)
    \/ \E k \in 1..Len(fut), o \in ConnectOutcomes : PingRun(k, o)
    \/ \E k \in 1..Len(fut), o \in ConnectOutcomes : ScanPortConnect(k, o)
    \/ \E k \in 1..Len(fut) : Acquire(k)
    \/ \E k \in 1..Len(fut), mac \in MacOutcomes :
          \E host_info \in HostInfoOutcomes(mac) : NetAppend(k, mac, host_info)
    \/ \E k \in 1..Len(fut) : PortAppend(k)
    \/ NetFallback
    \/ NetSort
    \/ NetReport
    \/ PortDemo
    \/ PortSort
    \/ PortReport
    \/ Unwind
    \/ ScanThreadEnds

Spec == Init /\ [][Next]_vars

(***************************************************************************)
(* The enumeration of the address space alone: NetworkScanner.scan from    *)
(* its call to the point where the first pool is about to be built, for    *)
(* range texts of up to MaxHostBits host bits.                             *)
(***************************************************************************)
WideNetInputs ==
    {[valid |-> TRUE, addr |-> BaseAddr + o, prefix |-> 32 - b] :
        o \in 0..(2 ^ MaxHostBits - 1), b \in 0..MaxHostBits}

InitHosts == Init /\ scanner = "net"

EnumerateHosts ==
    /\ pc = "idle"
    /\ scanner = "net"
    /\ \E network_range \in WideNetInputs, m \in Methods : NetScanCall(network_range, m)

NextHosts == EnumerateHosts

SpecHosts == InitHosts /\ [][NextHosts]_vars

(***************************************************************************)
(* Properties                                                              *)
(***************************************************************************)
\* the call has returned the report of a completed scan (not an error text)
ReportReturned ==
    /\ pc = "returned"
    /\ ret.kind = "text"
    /\ ret.text[1].t = "title"

IsHostRow(line) == line.t = "host"
IsPortRow(line) == line.t = "port"
HostRowsOf(text) == SelectSeq(text, IsHostRow)
PortRowsOf(text) == SelectSeq(text, IsPortRow)

StrictlyAscending(s, f) == \A i, j \in 1..Len(s) : i < j => s[i][f] < s[j][f]

\* C1: in NetworkScanner.scan and PortScanner.scan the number of probes in
\* flight (taken by a worker and not yet returned) never exceeds max_threads.
C1_InFlightBounded == Cardinality(InFlight) <= max_threads

\* C1 witness: the pool is full (max_threads probes in flight) while a
\* submitted unit still waits in the queue.
C1_Witness ==
    /\ Cardinality(InFlight) = max_threads
    /\ \E k \in 1..Len(fut) : fut[k].st = "queued"

\* C2: from the moment the pool is left, through the sort and the building
\* of the summary, every future of the pass (the ICMP fallback pass included)
\* has run to its end: none is queued or in flight, none holds the lock.
C2_ReportAfterDrain ==
    pc \in {"drained", "sort", "report"} \/ ReportReturned
        => /\ \A k \in 1..Len(fut) : fut[k].st = "done"
           /\ Len(fut) = Len(units)
           /\ lock = 0

\* C2 witness: the sort of a network scan is done after two passes (TCP,
\* then the ICMP fallback) over two hosts.
C2_Witness ==
    /\ pc = "report"
    /\ scanner = "net"
    /\ icmp_fallback_used
    /\ Len(hosts) = 2
    /\ active_hosts # <<>>

\* C3: at most one worker is inside the lock-guarded append section, which
\* is entered only by the holder of the lock; and when the pool has drained
\* the collection holds exactly one entry per positive probe.
C3_AppendsSerialized ==
    /\ Cardinality({k \in 1..Len(fut) : fut[k].st = "locked"}) <= 1
    /\ \A k \in 1..Len(fut) : fut[k].st = "locked" <=> lock = k
    /\ pc = "drained" /\ scanner = "net" =>
          /\ Len(active_hosts) = Cardinality(positive["tcp"] \cup positive["icmp"])
          /\ \A k \in 1..Len(hosts) :
                CountField(active_hosts, "ip", hosts[k])
                    = IF k \in positive["tcp"] \cup positive["icmp"] THEN 1 ELSE 0
    /\ pc = "drained" /\ scanner = "port" =>
          /\ Len(open_ports) = Cardinality(positive["port"])
          /\ \A k \in 1..Len(units) :
                CountField(open_ports, "port", units[k])
                    = Cardinality({j \in positive["port"] : units[j] = units[k]})

\* C3 witness: one worker is inside the append section while another, whose
\* probe also succeeded, waits for the lock.
C3_Witness ==
    \E j, k \in 1..Len(fut) : fut[j].st = "locked" /\ fut[k].st = "wantlock"

\* C4: when a scan with method "tcp" whose TCP pass found no host reaches
\* its report, every address has been probed exactly once by ICMP (and once
\* by TCP), and the text holds the fallback notice and the ICMP note.
C4_FallbackRuns ==
    /\ scanner = "net" /\ method = "tcp" /\ positive["tcp"] = {}
       /\ (pc = "report" \/ ReportReturned)
          => /\ icmp_fallback_used
             /\ \A k \in 1..Len(hosts) : calls["icmp"][k] = 1 /\ calls["tcp"][k] = 1
             /\ \A n \in 1..Len(FallbackNotice) :
                   Cardinality({i \in 1..Len(results) : results[i] = FallbackNotice[n]}) = 1
    /\ scanner = "net" /\ method = "tcp" /\ positive["tcp"] = {} /\ ReportReturned
          => /\ ret.text = results
             /\ \E i \in 1..Len(ret.text) : ret.text[i] = IcmpNote

\* C4 witness: a TCP scan that found nothing by TCP has returned a report
\* listing a host found by the ICMP fallback.
C4_Witness ==
    /\ ReportReturned
    /\ scanner = "net"
    /\ method = "tcp"
    /\ positive["tcp"] = {}
    /\ Len(hosts) = 2
    /\ Len(HostRowsOf(ret.text)) >= 1

\* C5: the host rows of the report NetworkScanner.scan returns are strictly
\* ascending by numeric address, whatever the order the probes completed in.
C5_HostsAscending ==
    ReportReturned /\ scanner = "net" => StrictlyAscending(HostRowsOf(ret.text), "ip")

\* C5 witness: a report with two host rows has been returned.
C5_Witness ==
    ReportReturned /\ scanner = "net" /\ Len(HostRowsOf(ret.text)) = 2

\* C6 (as claimed): the port rows of the report PortScanner.scan returns are
\* strictly ascending by port number, for every accepted port text.
C6_PortsStrictlyAscending ==
    ReportReturned /\ scanner = "port" => StrictlyAscending(PortRowsOf(ret.text), "port")

\* C7 (as claimed): when PortScanner.scan returns its report, scan_port has
\* been called exactly once for every element of the parsed port space.
C7_EveryPortProbedOnce ==
    ReportReturned /\ scanner = "port" =>
        /\ \A k \in 1..Len(units) : calls["port"][k] <= 1
        /\ \A i \in 1..Len(ports) :
              Cardinality({k \in 1..Len(units) :
                              units[k] = ports[i] /\ calls["port"][k] = 1})
                  = Cardinality({j \in 1..Len(ports) : ports[j] = ports[i]})

\* C8 (as claimed): every Open row of the report PortScanner.scan returns is
\* the port of a probe of this call whose connect succeeded.
C8_OpenRowsAreProbed ==
    ReportReturned /\ scanner = "port" =>
        \A i \in 1..Len(PortRowsOf(ret.text)) :
            \E k \in positive["port"] : units[k] = PortRowsOf(ret.text)[i].port

\* C9 (as claimed): every call of NetworkScanner.scan and PortScanner.scan
\* gives its caller a text; no exception leaves the call.
C9_AlwaysReturnsText == pc = "returned" => ret.kind = "text"

\* a port text that is malformed in the sense of C10: a non-numeric token,
\* more than one dash, a reversed range, or a value outside [1,65535]
Malformed(port_range) ==
    \/ \E i \in 1..Len(port_range.parts) : port_range.parts[i] = NaN
    \/ \E i \in 1..Len(port_range.parts) :
          port_range.parts[i] < 1 \/ port_range.parts[i] > MaxPort
    \/ port_range.sep = "-" /\ Len(port_range.parts) > 2
    \/ port_range.sep = "-" /\ port_range.parts[1] > port_range.parts[2]

\* C10 (as claimed): for a resolvable target and a malformed port text,
\* PortScanner.scan returns "Error: Invalid port format. Use: 80, 80-443, or
\* 80,443,8080".
C10_MalformedGivesFormatError ==
    /\ pc = "returned"
    /\ scanner = "port"
    /\ ret.kind = "text"
    /\ ret.text[1].t # "Error: Unable to resolve target"
    /\ Malformed(args.port_range)
    => ret.text = <<[t |-> "Error", msg |-> MsgInvalidFormat]>>

\* the port scan in progress or just returned has started no probe and its
\* outcome collection is empty
NoPortProbe ==
    /\ fut = <<>>
    /\ calls["port"] = <<>>
    /\ positive["port"] = {}
    /\ open_ports = <<>>

\* C11: parse_port_range accepts a text only if every port it yields lies in
\* [1,65535]; it fails for a text with a non-numeric token, a reversed range
\* or a value outside [1,65535], and the PortScanner.scan call given such a
\* text ends without a report, with no probe started and open_ports empty.
C11_RejectedTextsAreNotProbed ==
    scanner = "port" /\ pc # "idle" =>
        LET parsed == parse_port_range(args.port_range)
        IN  /\ parsed.ok =>
                  /\ ~Malformed(args.port_range)
                  /\ parsed.ports # <<>>
                  /\ \A i \in 1..Len(parsed.ports) :
                        parsed.ports[i] >= 1 /\ parsed.ports[i] <= MaxPort
            /\ Malformed(args.port_range) =>
                  /\ ~parsed.ok
                  /\ pc = "returned"
                  /\ ~ReportReturned
                  /\ NoPortProbe

\* C11 witness: a call for a resolved target with a list holding a port
\* above 65535 next to a valid one has returned its error text.
C11_Witness ==
    /\ pc = "returned"
    /\ scanner = "port"
    /\ args.resolved = "address"
    /\ args.port_range = [sep |-> ",", parts |-> <<21, 70000>>]
    /\ ret = Text(<<[t |-> "Error", msg |-> MsgInvalidNumber]>>)
    /\ NoPortProbe

\* C12: for a resolved target and an accepted port text, PortScanner.scan
\* returns "Error: Port range too large (max 10,000 ports)" when the port
\* space has more than 10,000 entries, with no probe started and no port
\* reported; a port space of exactly 10,000 entries is not refused, and the
\* report the call returns counts 10,000 ports scanned.
C12_SizeGuard ==
    scanner = "port" /\ pc # "idle" /\ args.resolved = "address" =>
        LET parsed == parse_port_range(args.port_range)
        IN  /\ parsed.ok /\ Len(parsed.ports) > MaxPortCount =>
                  /\ pc = "returned"
                  /\ ret = Text(PortSizeError)
                  /\ NoPortProbe
            /\ parsed.ok /\ Len(parsed.ports) <= MaxPortCount =>
                  /\ ret # Text(PortSizeError)
                  /\ pc = "returned" /\ ret.kind = "text" =>
                        /\ ReportReturned
                        /\ ports = parsed.ports
                        /\ \A k \in 1..Len(units) : calls["port"][k] = 1
                        /\ \E i \in 1..Len(ret.text) :
                              /\ ret.text[i].t = "summary"
                              /\ ret.text[i].scanned = Len(parsed.ports)

\* C12 witness: a call for a resolved target with a range of 10,001 ports
\* has returned the size error.
C12_Witness ==
    /\ pc = "returned"
    /\ scanner = "port"
    /\ args.resolved = "address"
    /\ parse_port_range(args.port_range).ok
    /\ Len(parse_port_range(args.port_range).ports) = MaxPortCount + 1
    /\ ret = Text(PortSizeError)
    /\ NoPortProbe

\* C13 (as claimed): when the target of a PortScanner.scan call is neither
\* a valid address nor a name the resolver resolves, the call returns
\* "Error: Unable to resolve target '<target>'" with no probe started,
\* whatever the port text is.
C13_UnresolvableGivesError ==
    pc = "returned" /\ scanner = "port" /\ args.resolved # "address" =>
        /\ ret = Text(<<[t |-> "Error: Unable to resolve target", target |-> args.target]>>)
        /\ NoPortProbe

\* C14: a NetworkScanner.scan call whose range text ipaddress.ip_network
\* rejects returns at once a text that begins with "Error: Invalid network
\* range format." and goes on to name CIDR notation; no probe of either
\* strategy is started and active_hosts is empty.
C14_InvalidRangeGivesError ==
    scanner = "net" /\ pc # "idle" /\ ~args.network_range.valid =>
        /\ pc = "returned"
        /\ ret.kind = "text"
        /\ ret.text[1].t = "Error: Invalid network range format."
        /\ ret.text[2].t = "Please use CIDR notation (e.g., 192.168.1.0/24) or single IP."
        /\ fut = <<>>
        /\ calls = NoCalls
        /\ positive = NoPositive
        /\ active_hosts = <<>>

\* C14 witness: a call with an invalid range text has returned the error
\* text.
C14_Witness ==
    /\ pc = "returned"
    /\ scanner = "net"
    /\ ~args.network_range.valid
    /\ ret = Text(NetRangeError)
    /\ active_hosts = <<>>

\* C15: for a range text whose prefix has more than 2 addresses, the hosts
\* NetworkScanner.scan enumerates are the capacity - 2 addresses between
\* the network and the broadcast address, in ascending order; for a /32 or
\* a bare address they are that one address; "10.0.0.0/30" gives 10.0.0.1
\* and 10.0.0.2; and the header counts them.
C15_HostCount ==
    scanner = "net" /\ pc = "submit" =>
        LET net == args.network_range
            cap == Capacity(net.prefix)
        IN  /\ cap > 2 =>
                  /\ Len(hosts) = cap - 2
                  /\ \A i \in 1..Len(hosts) : hosts[i] = network_address(net) + i
                  /\ network_address(net) \notin Range(hosts)
                  /\ broadcast_address(net) \notin Range(hosts)
            /\ net.prefix = 32 => hosts = <<net.addr>>
            /\ net = [valid |-> TRUE, addr |-> BaseAddr, prefix |-> 30] =>
                  hosts = <<BaseAddr + 1, BaseAddr + 2>>
            /\ results[2] = [t |-> "scanning", n |-> Len(hosts)]
            /\ Len(fut) = Len(hosts)

\* C15 witness: the hosts of "10.0.0.5/29" (host bits set in the text) have
\* been enumerated: 10.0.0.1 to 10.0.0.6.
C15_Witness ==
    /\ pc = "submit"
    /\ scanner = "net"
    /\ args.network_range = [valid |-> TRUE, addr |-> BaseAddr + 5, prefix |-> 29]
    /\ hosts = [i \in 1..6 |-> BaseAddr + i]

\* C16 (as claimed): for every prefix with more than one address, a /31
\* included, the hosts NetworkScanner.scan enumerates hold neither the
\* network address nor the broadcast address of the prefix.
C16_NoNetworkNoBroadcast ==
    scanner = "net" /\ pc = "submit" /\ Capacity(args.network_range.prefix) > 1 =>
        /\ network_address(args.network_range) \notin Range(hosts)
        /\ broadcast_address(args.network_range) \notin Range(hosts)

\* C16 (as amended): for every prefix with more than two addresses the hosts
\* NetworkScanner.scan enumerates hold neither the network address nor the
\* broadcast address of the prefix; for a /31 they are the two addresses of
\* the prefix, which are its network and its broadcast address.
C16_NoNetworkNoBroadcastBut31 ==
    scanner = "net" /\ pc = "submit" =>
        /\ Capacity(args.network_range.prefix) > 2 =>
              /\ network_address(args.network_range) \notin Range(hosts)
              /\ broadcast_address(args.network_range) \notin Range(hosts)
        /\ args.network_range.prefix = 31 =>
              hosts = <<network_address(args.network_range),
                        broadcast_address(args.network_range)>>

\* C16 witness: the hosts of "10.0.0.3/31" have been enumerated: 10.0.0.2
\* and 10.0.0.3.
C16_Witness ==
    /\ pc = "submit"
    /\ scanner = "net"
    /\ args.network_range = [valid |-> TRUE, addr |-> BaseAddr + 3, prefix |-> 31]
    /\ hosts = <<BaseAddr + 2, BaseAddr + 3>>

\* C17: in the report of a scan of a target that is not localhost, for a
\* port text that yields only ports up to 1024, the Open rows are exactly
\* the ports whose probe connected, one row per such probe, each with the
\* service name of the static table ("Unknown" for a port the table lacks);
\* a port whose probe failed has no row.
C17_OpenRowsAreConnects ==
    /\ ReportReturned
    /\ scanner = "port"
    /\ ~is_localhost(args.target)
    /\ \A i \in 1..Len(ports) : ports[i] <= WellKnownMax
    => LET rows == PortRowsOf(ret.text)
       IN  /\ {rows[i].port : i \in 1..Len(rows)} = {units[k] : k \in positive["port"]}
           /\ Len(rows) = Cardinality(positive["port"])
           /\ \A i \in 1..Len(rows) :
                 /\ rows[i].state = "Open"
                 /\ rows[i].service = services(rows[i].port)
                 /\ rows[i].service \in {"FTP", "SSH", "Telnet", "Unknown"}
                 /\ rows[i].service = "Unknown" <=> rows[i].port = 24
           /\ \A k \in 1..Len(units) :
                 (\A j \in positive["port"] : units[j] # units[k])
                     => \A i \in 1..Len(rows) : rows[i].port # units[k]

\* C17 witness: the report of a scan of 10.0.0.5 for "22-24" has returned;
\* only the probe of port 24 connected, and the one Open row is port 24
\* with service "Unknown".
C17_Witness ==
    /\ ReportReturned
    /\ scanner = "port"
    /\ args.target = "10.0.0.5"
    /\ ports = <<22, 23, 24>>
    /\ positive["port"] = {3}
    /\ PortRowsOf(ret.text) = <<[t |-> "port", port |-> 24, service |-> "Unknown",
                                 state |-> "Open", banner |-> "Service detected"]>>

\* the lines of the fallback notice are among the lines of text
HasFallbackNotice(text) ==
    \E i \in 1..Len(text), n \in 1..Len(FallbackNotice) : text[i] = FallbackNotice[n]

\* C18: within one NetworkScanner.scan call no address is probed more than
\* once by the same strategy and the notice is added at most once; when
\* method is "icmp", or when the TCP pass found a host, no second pass is
\* run: no address is probed a second time and neither the text being
\* built nor the report holds the fallback notice.
C18_FallbackOnceOnly ==
    scanner = "net" /\ pc # "idle" =>
        /\ \A k \in 1..Len(hosts) : calls["tcp"][k] <= 1 /\ calls["icmp"][k] <= 1
        /\ \A n \in 1..Len(FallbackNotice) :
              Cardinality({i \in 1..Len(results) : results[i] = FallbackNotice[n]}) <= 1
        /\ HasFallbackNotice(results) => icmp_fallback_used
        /\ icmp_fallback_used =>
              /\ method = "tcp"
              /\ positive["tcp"] = {}
              /\ \A k \in 1..Len(hosts) : calls["tcp"][k] = 1
        /\ method = "icmp" \/ positive["tcp"] # {} =>
              /\ ~icmp_fallback_used
              /\ \A k \in 1..Len(hosts) : calls["tcp"][k] + calls["icmp"][k] <= 1
              /\ ~HasFallbackNotice(results)
              /\ ret.kind = "text" => ~HasFallbackNotice(ret.text)

\* C18 witness: a scan with method "tcp" of two addresses has returned its
\* report; the TCP pass found one of them, the other was not probed again.
C18_Witness ==
    /\ ReportReturned
    /\ scanner = "net"
    /\ method = "tcp"
    /\ Len(hosts) = 2
    /\ positive["tcp"] = {1}
    /\ calls["tcp"] = <<1, 1>>
    /\ calls["icmp"] = <<0, 0>>
    /\ Len(HostRowsOf(ret.text)) = 1
    /\ ~HasFallbackNotice(ret.text)

\* C19: in a TCP pass the probe of an address tries the ports 80, 443, 22,
\* 21, 25, 53, 135, 139, 445 in that order, one connect at a time.  Once a
\* connect succeeds the probe tries no further port and appends exactly one
\* outcome, whose port is the port of that connect; a probe that ends with
\* no connect succeeded (refused or raised on each port) has tried all nine
\* ports and appends nothing.
C19_FirstConnectWins ==
    scanner = "net" /\ func = "tcp" /\ pc # "idle" =>
        LET order == <<80, 443, 22, 21, 25, 53, 135, 139, 445>>
            Entries(k) == {i \in 1..Len(active_hosts) : active_hosts[i].ip = hosts[k]}
        IN  \A k \in 1..Len(fut) :
               /\ fut[k].st \notin {"new", "queued"} => fut[k].i \in 1..Len(order)
               /\ k \in positive["tcp"] <=> fut[k].st \in {"wantlock", "locked"}
                                               \/ (fut[k].st = "done" /\ Entries(k) # {})
               /\ fut[k].st # "done" => Entries(k) = {}
               /\ fut[k].st = "done" /\ k \in positive["tcp"] =>
                     /\ Cardinality(Entries(k)) = 1
                     /\ \A i \in Entries(k) : active_hosts[i].port = order[fut[k].i]
               /\ fut[k].st = "done" /\ k \notin positive["tcp"] =>
                     /\ fut[k].i = Len(order)
                     /\ Entries(k) = {}

\* C19 witness: in a TCP pass over two addresses both probes are over: the
\* first connected on its third port, 22, which is the port recorded; the
\* second went through all nine ports and recorded nothing.
C19_Witness ==
    /\ scanner = "net"
    /\ func = "tcp"
    /\ pc = "collect"
    /\ Len(fut) = 2
    /\ fut[1].st = "done" /\ fut[1].i = 3
    /\ fut[2].st = "done" /\ fut[2].i = 9
    /\ positive["tcp"] = {1}
    /\ Len(active_hosts) = 1
    /\ active_hosts[1].ip = hosts[1]
    /\ active_hosts[1].port = 22

\* C20 (as claimed): when the pool has been left with every unit handed to
\* it, each unit has been probed once whatever the other probes gave; a
\* unit whose probe failed (and no other probe of the same unit succeeded)
\* has no entry in the outcome collection the report is built from; and
\* the call returns its report.
C20_FailedProbeLeavesNoEntry ==
    /\ pc \in {"drained", "sort", "report", "returned"}
    /\ fut # <<>>
    /\ submitted = Len(fut)
    => /\ \A k \in 1..Len(fut) : calls[func][k] = 1
       /\ \A k \in 1..Len(fut) :
             (\A j \in positive[func] : units[j] # units[k]) =>
                 /\ CountField(active_hosts, "ip", units[k]) = 0
                 /\ CountField(open_ports, "port", units[k]) = 0
       /\ pc = "returned" => ReportReturned

(***************************************************************************)
(* Passes long enough for progress notes: a /26 (62 hosts) and a /25 (126  *)
(* hosts) scanned by ping, and port ranges of one port less than, and of   *)
(* exactly, MaxNotes times ProgressEvery ports.  The scanner has one       *)
(* worker thread and no unit answers; the comprehension that submits the   *)
(* work items is one step (the loop over as_completed starts after it in   *)
(* any case).                                                              *)
(***************************************************************************)
ProgressNetInputs ==
    {[valid |-> TRUE, addr |-> BaseAddr, prefix |-> p] : p \in {25, 26}}

ProgressPortInputs ==
    {[sep |-> "-", parts |-> <<1, n>>] :
        n \in {MaxNotes * ProgressEvery - 1, MaxNotes * ProgressEvery}}

ProgressNetCall ==
    /\ pc = "idle"
    /\ scanner = "net"
    /\ \E network_range \in ProgressNetInputs : NetScanCall(network_range, "icmp")

ProgressPortCall ==
    /\ pc = "idle"
    /\ scanner = "port"
    /\ \E port_range \in ProgressPortInputs : PortScanCall("10.0.0.5", port_range, "address")

\* "{executor.submit(func, unit): unit for unit in units}" as a whole
SubmitAll ==
    /\ pc = "submit"
    /\ submitted = 0
    /\ submitted' = Len(units)
    /\ fut' = [k \in 1..Len(fut) |-> [fut[k] EXCEPT !.st = "queued"]]
    /\ pc' = "collect"
    /\ UNCHANGED <<object, active_hosts, open_ports, lock, ret, locals, results,
                   func, completed, history>>

\* the work queue of the executor is first in, first out
StartNext ==
    \E k \in 1..Len(fut) :
       /\ \A j \in 1..(k - 1) : fut[j].st # "queued"
       /\ Start(k)

PingFails == \E k \in 1..Len(fut) : PingRun(k, "refused")
ConnectFails == \E k \in 1..Len(fut) : ScanPortConnect(k, "refused")

NextProgress ==
    \/ ProgressNetCall
    \/ ProgressPortCall
    \/ SubmitAll
    \/ StartNext
    \/ PingFails
    \/ ConnectFails
    \/ Collect
    \/ ExitPool
    \/ NetSort
    \/ NetReport
    \/ PortDemo
    \/ PortSort
    \/ PortReport

InitProgress == Init /\ max_threads = 1

SpecProgress == InitProgress /\ [][NextProgress]_vars

(***************************************************************************)
(* The sockets of the probes.  Both probes create the socket, set its      *)
(* timeout and call connect_ex inside a try block whose handlers do not    *)
(* close it; sock.close() stands after connect_ex (_ping_host_tcp) or at   *)
(* the end of both branches of "if result == 0" (scan_port).  When the     *)
(* socket goes after that is the garbage collector's matter.  One call of  *)
(* scan is followed.                                                       *)
(***************************************************************************)
SockNetInputs == {[valid |-> TRUE, addr |-> BaseAddr, prefix |-> 32]}

SockPortInputs ==
    {[sep |-> "", parts |-> <<21>>], [sep |-> ",", parts |-> <<21, 22>>]}

SockNetCall ==
    /\ pc = "idle"
    /\ scanner = "net"
    /\ \E network_range \in SockNetInputs : NetScanCall(network_range, "tcp")

SockPortCall ==
    /\ pc = "idle"
    /\ scanner = "port"
    /\ \E port_range \in SockPortInputs : PortScanCall("host.example", port_range, "address")

\* the ledger after connect_ex of the probe of unit k: _ping_host_tcp closes
\* the socket as soon as connect_ex has returned; scan_port keeps it for the
\* banner if the port is open and closes it if not; if connect_ex raises,
\* the handler is entered with the socket open and returns or continues
SocketsAfterConnect(k, outcome) ==
    IF outcome = "raise" THEN [sockets EXCEPT !.left = @ + 1]
    ELSE IF outcome = "ok" /\ func = "port" THEN [sockets EXCEPT !.open = @ \cup {k}]
    ELSE sockets

\* "sock.close()" after the append of scan_port
SocketsAfterClose(k) == [sockets EXCEPT !.open = @ \ {k}]

TcpConnectSock(k, outcome) ==
    /\ TcpTurn(k, outcome)
    /\ sockets' = SocketsAfterConnect(k, outcome)
    /\ UNCHANGED <<config, other, active_hosts, open_ports, lock, pc, ret, locals,
                   results, func, submitted, completed, calls>>

ScanPortConnectSock(k, outcome) ==
    /\ ScanPortTurn(k, outcome)
    /\ sockets' = SocketsAfterConnect(k, outcome)
    /\ UNCHANGED <<config, other, active_hosts, open_ports, lock, pc, ret, locals,
                   results, func, submitted, completed, calls>>

PortAppendSock(k) ==
    /\ PortAppendTurn(k)
    /\ sockets' = SocketsAfterClose(k)
    /\ UNCHANGED <<config, other, active_hosts, pc, ret, locals, results,
                   func, submitted, completed, history>>

NextSockets ==
    \/ SockNetCall
    \/ SockPortCall
    \/ Submit
    \/ Collect
    \/ ExitPool
    \/ \E k \in 1..Len(fut) : Start(k)
    \/ \E k \in 1..Len(fut), o \in ConnectOutcomes : TcpConnectSock(k, o)
    \/ \E k \in 1..Len(fut), o \in ConnectOutcomes : PingRun(k, o)
    \/ \E k \in 1..Len(fut), o \in ConnectOutcomes : ScanPortConnectSock(k, o)
    \/ \E k \in 1..Len(fut) : Acquire(k)
    \/ \E k \in 1..Len(fut), mac \in MacOutcomes :
          \E host_info \in HostInfoOutcomes(mac) : NetAppend(k, mac, host_info)
    \/ \E k \in 1..Len(fut) : PortAppendSock(k)
    \/ NetFallback
    \/ NetSort
    \/ NetReport
    \/ PortDemo
    \/ PortSort
    \/ PortReport

SpecSockets == Init /\ [][NextSockets]_vars

(***************************************************************************)
(* Two calls of scan on the one NetworkScanner of the GUI.  Each click on  *)
(* the scan button starts a thread that calls self.network_scanner.scan;   *)
(* nothing keeps a second click from doing so while the first thread is    *)
(* still in scan.  The first call is followed in full; the second scans a  *)
(* single address outside the first call's range by ping, with its frame   *)
(* in "other".  Both work on self.active_hosts and self.lock.              *)
(***************************************************************************)
OverlapNetInputs == {[valid |-> TRUE, addr |-> BaseAddr, prefix |-> 31]}

\* the address the second call scans
OtherAddr == BaseAddr + 3

\* the holder of the lock when it is the worker of the second call
OtherHolder == -1

OverlapCall ==
    /\ pc = "idle"
    /\ scanner = "net"
    /\ other.pc = "none"
    /\ \E network_range \in OverlapNetInputs : NetScanCall(network_range, "icmp")

\* the second scan_thread calls scan while the first call has not returned:
\* "self.active_hosts = []"
OtherCall ==
    /\ scanner = "net"
    /\ pc \notin {"idle", "returned"}
    /\ other.pc = "none"
    /\ active_hosts' = Cleared(active_hosts)
    /\ other' = [pc |-> "probe", host |-> OtherAddr, found |-> FALSE, rows |-> <<>>]
    /\ UNCHANGED <<config, sockets, open_ports, lock, pc, ret, locals, results, pool,
                   history>>

\* _ping_host_icmp of the second call
OtherPing(outcome) ==
    /\ other.pc = "probe"
    /\ other' = IF Connected(outcome) THEN [other EXCEPT !.pc = "wantlock", !.found = TRUE]
                ELSE [other EXCEPT !.pc = "drained"]
    /\ UNCHANGED <<config, sockets, active_hosts, open_ports, lock, pc, ret, locals,
                   results, pool, history>>

OtherAcquire ==
    /\ other.pc = "wantlock"
    /\ LockFree
    /\ lock' = OtherHolder
    /\ other' = [other EXCEPT !.pc = "locked"]
    /\ UNCHANGED <<config, sockets, active_hosts, open_ports, pc, ret, locals,
                   results, pool, history>>

OtherAppend(mac, host_info) ==
    /\ other.pc = "locked"
    /\ active_hosts' = Append(active_hosts,
           [ip |-> other.host, port |-> IcmpMark, host_info |-> host_info, mac |-> mac])
    /\ lock' = 0
    /\ other' = [other EXCEPT !.pc = "drained"]
    /\ UNCHANGED <<config, sockets, open_ports, pc, ret, locals, results, pool,
                   history>>

\* "self.active_hosts.sort(...)" of the second call
OtherSort ==
    /\ other.pc = "drained"
    /\ active_hosts' = SortHosts(active_hosts)
    /\ other' = [other EXCEPT !.pc = "report"]
    /\ UNCHANGED <<config, sockets, open_ports, lock, pc, ret, locals, results, pool,
                   history>>

\* the table of the second call's report: "for ip, port, hostname, mac in
\* self.active_hosts"
OtherReport ==
    /\ other.pc = "report"
    /\ other' = [other EXCEPT !.pc = "returned", !.rows = HostRows(active_hosts)]
    /\ UNCHANGED <<config, sockets, active_hosts, open_ports, lock, pc, ret, locals,
                   results, pool, history>>

NextOverlap ==
    \/ OverlapCall
    \/ Submit
    \/ Collect
    \/ ExitPool
    \/ \E k \in 1..Len(fut) : Start(k)
    \/ \E k \in 1..Len(fut), o \in ConnectOutcomes : PingRun(k, o)
    \/ \E k \in 1..Len(fut) : Acquire(k)
    \/ \E k \in 1..Len(fut), mac \in MacOutcomes :
          \E host_info \in HostInfoOutcomes(mac) : NetAppend(k, mac, host_info)
    \/ NetSort
    \/ NetReport
    \/ OtherCall
    \/ \E o \in ConnectOutcomes : OtherPing(o)
    \/ OtherAcquire
    \/ \E mac \in MacOutcomes : \E host_info \in HostInfoOutcomes(mac) :
          OtherAppend(mac, host_info)
    \/ OtherSort
    \/ OtherReport

SpecOverlap == Init /\ [][NextOverlap]_vars

(***************************************************************************)
(* The blocking calls of a probe.  connect_ex runs under                   *)
(* sock.settimeout(self.timeout) and ping under its own -W / -w option, so *)
(* each is a step that ends with an outcome.  The lookups of the           *)
(* enrichment are made inside "with self.lock:" with nothing that ends     *)
(* them: subprocess.run(["arp", "-a", ip]) and subprocess.run(["arp",      *)
(* "-a"]) have no timeout argument, socket.gethostbyaddr and               *)
(* socket.getfqdn take none.  A worker inside such a call is in "lookup"   *)
(* until the call returns of itself.  One call of scan is followed.        *)
(***************************************************************************)
BlockingNetInputs == {[valid |-> TRUE, addr |-> BaseAddr, prefix |-> 31]}

BlockingCall ==
    /\ pc = "idle"
    /\ scanner = "net"
    /\ \E network_range \in BlockingNetInputs, m \in Methods : NetScanCall(network_range, m)

\* get_mac_address / get_host_info: the worker enters a lookup that has no
\* timeout, holding the lock
LookupStarts(k) ==
    /\ k \in 1..Len(fut)
    /\ scanner = "net"
    /\ fut[k].st = "locked"
    /\ fut' = [fut EXCEPT ![k].st = "lookup"]
    /\ UNCHANGED <<object, active_hosts, open_ports, lock, pc, ret, locals, results,
                   func, submitted, completed, history>>

\* the lookup returns of itself
LookupReturns(k) ==
    /\ k \in 1..Len(fut)
    /\ fut[k].st = "lookup"
    /\ fut' = [fut EXCEPT ![k].st = "locked"]
    /\ UNCHANGED <<object, active_hosts, open_ports, lock, pc, ret, locals, results,
                   func, submitted, completed, history>>

NextBlocking ==
    \/ BlockingCall
    \/ Submit
    \/ Collect
    \/ ExitPool
    \/ \E k \in 1..Len(fut) : Start(k)
    \/ \E k \in 1..Len(fut), o \in ConnectOutcomes : TcpConnect(k, o)
    \/ \E k \in 1..Len(fut), o \in ConnectOutcomes : PingRun(k, o)
    \/ \E k \in 1..Len(fut) : Acquire(k)
    \/ \E k \in 1..Len(fut) : LookupStarts(k)
    \/ \E k \in 1..Len(fut) : LookupReturns(k)
    \/ \E k \in 1..Len(fut), mac \in MacOutcomes :
          \E host_info \in HostInfoOutcomes(mac) : NetAppend(k, mac, host_info)
    \/ NetFallback
    \/ NetSort
    \/ NetReport

SpecBlocking == Init /\ [][NextBlocking]_vars

(***************************************************************************)
(* Enrichment                                                              *)
(***************************************************************************)
\* the probes of the running pool that found their host
NetPositive == IF scanner = "net" THEN positive[func] ELSE {}

\* the values the specification allows the two lookups to give
MacValues == {Mac, "Unknown"}
HostInfoValues == {"host.lan", "VMware", "Unknown"}

\* C24: whatever the resolution steps (reverse DNS, FQDN, NetBIOS, OUI lookup,
\* ARP read) answer, an exception included, get_mac_address gives a MAC or
\* "Unknown" and get_host_info a name, a vendor or "Unknown", never another
\* marker; and the probe that called them has appended its outcome.
C24_ResolutionDegradesToUnknown ==
    /\ \A k \in 1..Len(fut) :
          scanner = "net" /\ fut[k].st = "locked" =>
             \A a \in ArpSteps, steps \in HostInfoSteps :
                /\ get_mac_address(a) \in MacValues
                /\ get_host_info(steps, get_mac_address(a)) \in HostInfoValues
    /\ \A i \in 1..Len(active_hosts) :
          /\ active_hosts[i].mac \in MacValues
          /\ active_hosts[i].host_info \in HostInfoValues
    /\ \A k \in NetPositive :
          fut[k].st = "done" =>
             \E i \in 1..Len(active_hosts) :
                /\ active_hosts[i].ip = hosts[k]
                /\ active_hosts[i].mac = fut[k].mac
                /\ active_hosts[i].host_info = fut[k].host_info

\* every step failed for a host that answered, and its outcome is reported
C24_Witness ==
    /\ ReportReturned
    /\ scanner = "net"
    /\ \E k \in NetPositive :
          /\ fut[k].mac = "Unknown"
          /\ fut[k].host_info = "Unknown"
          /\ \E i \in 1..Len(active_hosts) :
                /\ active_hosts[i].ip = hosts[k]
                /\ active_hosts[i].host_info = "Unknown"
    /\ \E i \in 1..Len(ret.text) :
          IsHostRow(ret.text[i]) /\ ret.text[i].hostname = "Unknown"

\* number of entries of active_hosts for an address
EntriesOf(ip) == CountField(active_hosts, "ip", ip)

\* C23: get_mac_address and get_host_info run only for an address whose probe
\* succeeded, once for it, and never for an address whose probe failed.
C23_EnrichedOnlyOnSuccess ==
    scanner = "net" =>
       \A k \in 1..Len(fut) :
          /\ fut[k].enriched <= 1
          /\ fut[k].enriched = 1 => k \in NetPositive
          /\ k \in NetPositive /\ fut[k].st = "done" => fut[k].enriched = 1
          /\ k \notin NetPositive => fut[k].mac = "" /\ fut[k].host_info = ""
          /\ EntriesOf(hosts[k]) = fut[k].enriched

\* a pass is over in which one address answered and another did not
C23_Witness ==
    /\ scanner = "net"
    /\ pc = "drained"
    /\ \E k, l \in 1..Len(fut) :
          /\ k \in NetPositive /\ fut[k].enriched = 1
          /\ l \notin NetPositive /\ fut[l].st = "done" /\ fut[l].enriched = 0
          /\ calls[func][l] = 1

\* the workers inside "with self.lock:", where the two lookups and the append run
Enriching == {k \in 1..Len(fut) : fut[k].st = "locked"}
\* the workers with a positive outcome that have not entered the block yet
Waiting == {k \in 1..Len(fut) : fut[k].st = "wantlock"}

\* C30: in NetworkScanner the lookups of a positive outcome run inside the
\* lock-guarded block of the append: at most one worker is enriching at any
\* instant, it is the holder of the lock, a worker with a positive outcome
\* stays waiting while another is enriching, and a worker with a negative
\* outcome never asks for the lock.
C30_EnrichmentUnderLock ==
    scanner = "net" =>
       /\ Cardinality(Enriching) <= 1
       /\ \A k \in Enriching : lock = k /\ fut[k].enriched = 0
       /\ lock # 0 => Enriching = {lock}
       /\ \A k \in 1..Len(fut) : fut[k].enriched = 1 => fut[k].st = "done"
       /\ \A k \in Enriching \cup Waiting : k \in NetPositive
       /\ \A k \in 1..Len(fut) : k \notin NetPositive => k \notin Enriching \cup Waiting /\ lock # k

\* one worker is enriching and another with a positive outcome waits for the
\* lock; nothing has been appended yet
C30_Witness ==
    /\ scanner = "net"
    /\ \E k \in Enriching, w \in Waiting : k # w /\ lock = k
    /\ active_hosts = <<>>

(***************************************************************************)
(* Repeatability                                                           *)
(***************************************************************************)
\* what the probe of unit k of the running pool gave, as an outcome record
HostOutcome(k) ==
    [ip |-> hosts[k],
     port |-> IF func = "icmp" THEN IcmpMark ELSE test_ports[fut[k].i],
     host_info |-> fut[k].host_info,
     mac |-> fut[k].mac]
PortOutcome(k) ==
    [port |-> units[k], service |-> services(units[k]),
     banner |-> fut[k].banner, state |-> "Open"]

\* the units whose probe succeeded, in the order of the units
PositiveUnits ==
    LET Pos(k) == k \in positive[func]
    IN  SelectSeq([k \in 1..Len(fut) |-> k], Pos)

\* the outcomes of a call as its inputs and the answers of the probes fix
\* them, whatever the order of completion was and whatever the collection
\* held before the call
ExpectedHosts == [j \in 1..Len(PositiveUnits) |-> HostOutcome(PositiveUnits[j])]
ExpectedPorts ==
    SortPorts(WithDemo([j \in 1..Len(PositiveUnits) |-> PortOutcome(PositiveUnits[j])]))

ExpectedNetText ==
    NetHeader(args.network_range, Len(scan_hosts(args.network_range)), args.method)
    \o (IF args.method = "tcp" /\ func = "icmp" THEN FallbackNotice ELSE <<>>)
    \o <<[t |-> "summary", found |-> Len(ExpectedHosts)]>>
    \o (IF ExpectedHosts # <<>> THEN HostRows(ExpectedHosts)
        ELSE <<[t |-> "No active hosts found in the specified range."]>>)
    \o <<[t |-> "Note: This scan uses basic connectivity checks."]>>
    \o (IF func = "icmp" THEN <<IcmpNote>> ELSE <<>>)

ExpectedPortText ==
    LET parsed == parse_port_range(args.port_range).ports
    IN  PortHeader(ResolvedTarget(args.target), args.port_range, Len(parsed))
        \o <<[t |-> "summary", scanned |-> Len(parsed), open |-> Len(ExpectedPorts)]>>
        \o (IF ExpectedPorts # <<>> THEN PortRows(ExpectedPorts)
            ELSE <<[t |-> "No open ports found."]>>)

\* the probe function is deterministic: a port given twice is answered alike
DeterministicProbe ==
    \A j, k \in 1..Len(fut) :
       units[j] = units[k] =>
          /\ j \in positive[func] <=> k \in positive[func]
          /\ fut[j].banner = fut[k].banner

\* C21: the report of a scan and the outcome collection it leaves are fixed
\* by the inputs and by the answers of a deterministic probe function alone:
\* the same outcomes in the same order whatever the interleaving of the
\* workers was, and nothing of an earlier call on the same object in them.
C21_ReportFixedByInputsAndAnswers ==
    ReportReturned /\ DeterministicProbe =>
       IF scanner = "net"
       THEN active_hosts = ExpectedHosts /\ ret.text = ExpectedNetText
       ELSE open_ports = ExpectedPorts /\ ret.text = ExpectedPortText

\* a report with two hosts found: both orders of completion lead to it
C21_Witness ==
    /\ ReportReturned /\ DeterministicProbe
    /\ scanner = "net"
    /\ Len(PositiveUnits) = 2
    /\ Len(HostRowsOf(ret.text)) = 2
    /\ max_threads = 2

(***************************************************************************)
(* Order and extent of the scanned space                                   *)
(***************************************************************************)
Ascending(s) == \A i, j \in 1..Len(s) : i < j => s[i] <= s[j]

\* the units handed to the pool so far: the submit loop walks the list
SubmittedUnits == SubSeq(units, 1, submitted)

\* C28: the units of a call are enumerated and submitted in ascending numeric
\* order: the addresses of the prefix, and the ports of every accepted port
\* text, a comma list included.
C28_UnitsAscending ==
    /\ Ascending(hosts)
    /\ Ascending(ports)
    /\ Ascending(SubmittedUnits)

\* the summary line of a report
IsSummary(line) == line.t = "summary"

\* C29: every port a report of PortScanner.scan lists is a port of the space
\* parsed from the request, and the number of open ports it gives is at most
\* the number of ports scanned it gives, for every target.
C29_ReportedPortsWereRequested ==
    ReportReturned /\ scanner = "port" =>
       LET requested == Range(parse_port_range(args.port_range).ports)
           rows == PortRowsOf(ret.text)
           summary == SelectSeq(ret.text, IsSummary)[1]
       IN  /\ \A i \in 1..Len(rows) : rows[i].port \in requested
           /\ summary.open <= summary.scanned

(***************************************************************************)
(* Progress notes                                                          *)
(***************************************************************************)
IsProgress(line) == line.t = "progress"
ProgressNotes == SelectSeq(results, IsProgress)

C26_SocketsClosedOnEveryPath ==
    /\ sockets.left = 0
    /\ \A k \in 1..Len(fut) : fut[k].st = "done" => k \notin sockets.open

(***************************************************************************)
(* Calls that overlap                                                      *)
(***************************************************************************)
\* the addresses of the host rows of a table
RowAddrs(rows) == {rows[i].ip : i \in 1..Len(rows)}

\* C22: two calls of scan that overlap in time share no scan state: the
\* report each returns lists exactly the hosts its own probes found in its
\* own range.
C22_ReportsHoldOwnOutcomes ==
    /\ ReportReturned /\ scanner = "net" =>
          RowAddrs(HostRowsOf(ret.text)) = {hosts[k] : k \in positive[func]}
    /\ other.pc = "returned" =>
          RowAddrs(other.rows) = IF other.found THEN {other.host} ELSE {}

(***************************************************************************)
(* Bounded blocking                                                        *)
(***************************************************************************)
\* the workers inside a blocking call that nothing ends but its own return
InUnboundedCall == {k \in 1..Len(fut) : fut[k].st = "lookup"}

\* C25: a call of scan comes to its report once its probes have returned:
\* the report is written only after the pool has drained, a worker that has
\* returned does not hold the lock, and no worker is ever inside a blocking
\* step of its probe or of its enrichment that has no bound.
C25_NoUnboundedBlockingStep ==
    /\ ReportReturned => \A k \in 1..Len(fut) : Finished(k)
    /\ \A k \in 1..Len(fut) : Finished(k) => lock # k
    /\ InUnboundedCall = {}


====
